---- MODULE Spec2Model ----
(***************************************************************************)
(* Model of main.py (beevee/cyan): main() drives extract_doc_id,           *)
(* authenticate, download_document and build_report; build_report is the   *)
(* single-pass outline-to-report transformation.                           *)
(*                                                                         *)
(* Strings are sequences of one-character strings, so that splitting,      *)
(* stripping, tab expansion, the two regular expressions and the           *)
(* formatting of report lines are computed, not assumed.                   *)
(***************************************************************************)
EXTENDS Integers, Sequences, FiniteSets, TLC

(* ---------------------------------------------------------------- bounds *)

\* Largest number of lines of a downloaded document.
MaxLines == 3

(* ------------------------------------------------------ program constants *)

\* raw_line.expandtabs(4)
TabSize == 4

\* collect_indent: int | None = None; None is modelled as -1 (no indent is negative).
None == -1

(* ------------------------------------------------------- string helpers *)

\* Characters str.strip()/lstrip() and the regex class \s treat as whitespace.
Whitespace == {" ", "\t", "\n", "\r"}

Digits == {"0", "1", "2", "3", "4", "5", "6", "7", "8", "9"}

\* The marker class [-*...] of both patterns (the ASCII members of the class).
BulletChars == {"-", "*"}

MinOf(S) == CHOOSE x \in S : \A y \in S : x <= y

MaxOf(S) == CHOOSE x \in S : \A y \in S : x >= y

\* Number of leading characters of s that belong to cs.
LeadCount(s, cs) ==
    LET bad == {k \in 1..Len(s) : s[k] \notin cs}
    IN  IF bad = {} THEN Len(s) ELSE MinOf(bad) - 1

\* Number of trailing characters of s that belong to cs.
TrailCount(s, cs) ==
    LET bad == {k \in 1..Len(s) : s[k] \notin cs}
    IN  IF bad = {} THEN Len(s) ELSE Len(s) - MaxOf(bad)

\* str.lstrip(cs)
LStrip(s, cs) == SubSeq(s, LeadCount(s, cs) + 1, Len(s))

\* str.rstrip(cs)
RStrip(s, cs) == SubSeq(s, 1, Len(s) - TrailCount(s, cs))

\* str.strip()
Strip(s) == RStrip(LStrip(s, Whitespace), Whitespace)

Spaces(n) == [k \in 1..n |-> " "]

\* str.splitlines(): a line ends at each line break; no empty last line.
RECURSIVE SplitLines(_)
SplitLines(text) ==
    IF text = <<>> THEN <<>>
    ELSE LET brk == {k \in 1..Len(text) : text[k] = "\n"}
         IN  IF brk = {} THEN <<text>>
             ELSE <<SubSeq(text, 1, MinOf(brk) - 1)>>
                  \o SplitLines(SubSeq(text, MinOf(brk) + 1, Len(text)))

\* str.expandtabs(TabSize): a tab advances to the next multiple of TabSize.
RECURSIVE ExpandFrom(_, _)
ExpandFrom(s, col) ==
    IF s = <<>> THEN <<>>
    ELSE IF Head(s) = "\t"
         THEN LET n == TabSize - (col % TabSize)
              IN  Spaces(n) \o ExpandFrom(Tail(s), col + n)
         ELSE <<Head(s)>> \o ExpandFrom(Tail(s), col + 1)

\* Variant of ExpandTabs that replaces every tab by TabSize spaces, whatever
\* the column: raw_line.replace("\t", " " * 4).
RECURSIVE ExpandTabsFourEach(_)
ExpandTabsFourEach(s) ==
    IF s = <<>> THEN <<>>
    ELSE IF Head(s) = "\t"
         THEN Spaces(TabSize) \o ExpandTabsFourEach(Tail(s))
         ELSE <<Head(s)>> \o ExpandTabsFourEach(Tail(s))

ExpandTabs(s) == ExpandFrom(s, 0)

(* ------------------------------------------------------ line classification *)

\* Position of the "]" closing an empty-bracket token \[\s*\] that opens at j, or 0.
TokenEnd(s, j) ==
    IF s[j] # "["
    THEN 0
    ELSE LET k == j + 1 + LeadCount(SubSeq(s, j + 1, Len(s)), Whitespace)
         IN  IF k <= Len(s) /\ s[k] = "]" THEN k ELSE 0

\* _CHECKBOX_PATTERN.search(content): (.*?)\[\s*\](.*), the lazy prefix stops at
\* the first empty-bracket token.
CheckboxSearch(content) ==
    LET starts == {j \in 1..Len(content) : TokenEnd(content, j) > 0}
    IN  IF starts = {}
        THEN [matched |-> FALSE, g1 |-> <<>>, g2 |-> <<>>]
        ELSE LET j == MinOf(starts)
             IN  [matched |-> TRUE,
                  g1 |-> SubSeq(content, 1, j - 1),
                  g2 |-> SubSeq(content, TokenEnd(content, j) + 1, Len(content))]

\* Length of the marker (?:[-*...]|\d+\.) that starts at position p of s, or 0.
MarkerLen(s, p) ==
    IF p > Len(s) THEN 0
    ELSE IF s[p] \in BulletChars THEN 1
    ELSE LET d == LeadCount(SubSeq(s, p, Len(s)), Digits)
         IN  IF d >= 1 /\ p + d <= Len(s) /\ s[p + d] = "." THEN d + 1 ELSE 0

\* _BULLET_PATTERN.match(content): ^\s*(?:[-*...]|\d+\.)\s+(.*)
BulletMatch(content) ==
    LET p  == LeadCount(content, Whitespace) + 1
        m  == MarkerLen(content, p)
        w  == LeadCount(SubSeq(content, p + m, Len(content)), Whitespace)
    IN  IF m = 0 \/ w = 0
        THEN [matched |-> FALSE, g1 |-> <<>>]
        ELSE [matched |-> TRUE, g1 |-> SubSeq(content, p + m + w, Len(content))]

\* re.sub(r"^(?:[-*...]|\d+\.)\s*", "", pre)
PreClean(pre) ==
    LET m == MarkerLen(pre, 1)
    IN  IF m = 0 THEN pre
        ELSE LStrip(SubSeq(pre, m + 1, Len(pre)), Whitespace)

\* Variant of CheckboxText that joins the two parts without a space.
CheckboxTextNoSpace(pre_clean, post) == pre_clean \o post

\* item_text of a checkbox line.
CheckboxText(pre_clean, post) ==
    IF pre_clean # <<>> /\ post # <<>>
    THEN pre_clean \o <<" ">> \o post
    ELSE IF pre_clean # <<>> THEN pre_clean ELSE post

\* `if not raw_line.strip(): continue`
IsBlank(raw_line) == Strip(raw_line) = <<>>

\* line = raw_line.expandtabs(4).rstrip("\r\n")
NormLine(raw_line) == RStrip(ExpandTabs(raw_line), {"\r", "\n"})

\* indent = len(line) - len(line.lstrip(" "))
IndentOf(line) == Len(line) - Len(LStrip(line, {" "}))

\* content = line.lstrip()
ContentOf(line) == LStrip(line, Whitespace)

\* Variant of Classify without the final `else: continue`: a line matching
\* neither pattern falls through as a plain item.
ClassifyFallThrough(raw_line) ==
    IF IsBlank(raw_line)
    THEN [kind |-> "blank", indent |-> 0, text |-> <<>>]
    ELSE LET line    == NormLine(raw_line)
             content == ContentOf(line)
             cm      == CheckboxSearch(content)
             bm      == BulletMatch(content)
         IN  IF cm.matched
             THEN [kind |-> "checkbox", indent |-> IndentOf(line),
                   text |-> CheckboxText(PreClean(Strip(cm.g1)), Strip(cm.g2))]
             ELSE [kind |-> "bullet", indent |-> IndentOf(line),
                   text |-> Strip(bm.g1)]

\* One loop iteration up to the classification: kind, indent and item_text.
Classify(raw_line) ==
    IF IsBlank(raw_line)
    THEN [kind |-> "blank", indent |-> 0, text |-> <<>>]
    ELSE LET line    == NormLine(raw_line)
             content == ContentOf(line)
             cm      == CheckboxSearch(content)
             bm      == BulletMatch(content)
         IN  IF cm.matched
             THEN [kind |-> "checkbox", indent |-> IndentOf(line),
                   text |-> CheckboxText(PreClean(Strip(cm.g1)), Strip(cm.g2))]
             ELSE IF bm.matched
             THEN [kind |-> "bullet", indent |-> IndentOf(line),
                   text |-> Strip(bm.g1)]
             ELSE [kind |-> "other", indent |-> IndentOf(line), text |-> <<>>]

(* ------------------------------------------------------------- report lines *)

\* The indentation unit '  ' of a report line.
IndentUnit == <<" ", " ">>

\* 'unit' * n
RECURSIVE Repeat(_, _)
Repeat(unit, n) == IF n <= 0 THEN <<>> ELSE unit \o Repeat(unit, n - 1)

\* The separator appended before a block: output.append("")
Blank == <<>>

\* Variant of FormatLine that forgets the indentation.
FormatLineFlat(level, txt) == <<"-", " ">> \o txt

\* Variant of FormatLine that indents by two units per level.
FormatLineDouble(level, txt) == Repeat(IndentUnit, 2 * level) \o <<"-", " ">> \o txt

\* f"{'  ' * level}- {txt}"
FormatLine(level, txt) == Repeat(IndentUnit, level) \o <<"-", " ">> \o txt

\* Variant of NeedsBlank that separates every line of a block.
NeedsBlankAlways(level) == level >= 0

\* `if level == 0: output.append("")`
NeedsBlank(level) == level = 0

\* for level, (_, txt) in enumerate(stack): the lines appended from `level` on.
RECURSIVE PathFrom(_, _)
PathFrom(stk, level) ==
    IF level >= Len(stk) THEN <<>>
    ELSE (IF NeedsBlank(level) THEN <<Blank>> ELSE <<>>)
         \o <<FormatLine(level, stk[level + 1][2])>>
         \o PathFrom(stk, level + 1)

\* History: for each line PathFrom appends, the input line it shows (0: separator).
RECURSIVE PathSrcFrom(_, _)
PathSrcFrom(src, level) ==
    IF level >= Len(src) THEN <<>>
    ELSE (IF NeedsBlank(level) THEN <<0>> ELSE <<>>)
         \o <<src[level + 1]>>
         \o PathSrcFrom(src, level + 1)

\* Variant of ChildLevel that is off by one: len(stack).
ChildLevelOffByOne(stk) == Len(stk)

\* Variant of ChildLevel that derives the level from the indent width.
ChildLevelFromIndent(stk) == stk[Len(stk)][1] \div 2

\* child_level = len(stack) - 1
ChildLevel(stk) == Len(stk) - 1

(* ------------------------------------------------------- stack maintenance *)

\* Variant of InitLocals whose output starts with a separator: output = [""].
InitLocalsWithBlank ==
    [stack |-> <<>>, collecting |-> FALSE, collect_indent |-> None,
     root_stack_len |-> 0, output |-> <<Blank>>,
     stack_src |-> <<>>, output_src |-> <<0>>, emitted_by |-> <<0>>, pops |-> 0]

\* The locals of build_report as one value; stack_src, output_src, emitted_by and
\* pops are history (see the variables).
InitLocals ==
    [stack |-> <<>>, collecting |-> FALSE, collect_indent |-> None,
     root_stack_len |-> 0, output |-> <<>>,
     stack_src |-> <<>>, output_src |-> <<>>, emitted_by |-> <<>>, pops |-> 0]

\* Variant of PopCond that pops only strictly deeper entries: indent < stack[-1][0].
PopCondStrict(stk, indent) == stk # <<>> /\ indent < stk[Len(stk)][1]

\* while stack and indent <= stack[-1][0]
PopCond(stk, indent) == stk # <<>> /\ indent <= stk[Len(stk)][1]

\* Variant of StopCond with < for <=.
StopCondStrict(coll, cind, indent) == coll /\ cind # None /\ indent < cind

\* if collecting and collect_indent is not None and indent <= collect_indent
StopCond(coll, cind, indent) == coll /\ cind # None /\ indent <= cind

\* if collecting and collect_indent is not None and indent > collect_indent
ChildCond(coll, cind, indent) == coll /\ cind # None /\ indent > cind

\* Variant of PopOnce that reads the top, stack[-1], where it should pop it.
PopOncePeek(st, indent) ==
    LET stop == StopCond(st.collecting, st.collect_indent, indent)
    IN  [st EXCEPT !.collecting     = IF stop THEN FALSE ELSE st.collecting,
                   !.collect_indent = IF stop THEN None ELSE st.collect_indent,
                   !.pops           = st.pops + 1]

\* Variant of PopOnce without the test that ends collecting-children mode.
PopOnceKeepCollecting(st, indent) ==
    [st EXCEPT !.stack     = SubSeq(st.stack, 1, Len(st.stack) - 1),
               !.stack_src = SubSeq(st.stack_src, 1, Len(st.stack_src) - 1),
               !.pops      = st.pops + 1]

\* The body of the while loop, once.
PopOnce(st, indent) ==
    LET stop == StopCond(st.collecting, st.collect_indent, indent)
    IN  [st EXCEPT !.stack          = SubSeq(st.stack, 1, Len(st.stack) - 1),
                   !.stack_src      = SubSeq(st.stack_src, 1, Len(st.stack_src) - 1),
                   !.collecting     = IF stop THEN FALSE ELSE st.collecting,
                   !.collect_indent = IF stop THEN None ELSE st.collect_indent,
                   !.pops           = st.pops + 1]

\* Variant of Unwind with `if` for `while`: at most one entry is popped.
UnwindOnce(st, indent) ==
    IF PopCond(st.stack, indent) THEN PopOnce(st, indent) ELSE st

\* Variant of Unwind that clears the stack on any dedent instead of popping
\* entry by entry.
UnwindAll(st, indent) ==
    IF PopCond(st.stack, indent)
    THEN LET stop == StopCond(st.collecting, st.collect_indent, indent)
         IN  [st EXCEPT !.stack          = <<>>,
                        !.stack_src      = <<>>,
                        !.collecting     = IF stop THEN FALSE ELSE st.collecting,
                        !.collect_indent = IF stop THEN None ELSE st.collect_indent,
                        !.pops           = st.pops + Len(st.stack)]
    ELSE st

\* The whole while loop.
RECURSIVE Unwind(_, _)
Unwind(st, indent) ==
    IF PopCond(st.stack, indent) THEN Unwind(PopOnce(st, indent), indent) ELSE st

\* stack.append((indent, item_text)), for input line number n.
Push(st, c, n) ==
    [st EXCEPT !.stack     = Append(st.stack, <<c.indent, c.text>>),
               !.stack_src = Append(st.stack_src, n)]

\* `if checkbox_match:` emit the path, then prepare to collect child items.
EmitCheckbox(st, c, n) ==
    LET path == PathFrom(st.stack, 0)
    IN  [st EXCEPT !.output         = st.output \o path,
                   !.output_src     = st.output_src \o PathSrcFrom(st.stack_src, 0),
                   !.emitted_by     = st.emitted_by \o [k \in 1..Len(path) |-> n],
                   !.collecting     = TRUE,
                   !.collect_indent = c.indent,
                   !.root_stack_len = Len(st.stack)]

\* Variant of EmitBullet without the collecting-children condition.
EmitBulletAlways(st, c, n) ==
    [st EXCEPT !.output     = Append(st.output,
                                     FormatLine(ChildLevel(st.stack), c.text)),
               !.output_src = Append(st.output_src, n),
               !.emitted_by = Append(st.emitted_by, n)]

\* The plain-bullet tail of the iteration: output the child item, if it is one.
EmitBullet(st, c, n) ==
    IF ChildCond(st.collecting, st.collect_indent, c.indent)
    THEN [st EXCEPT !.output     = Append(st.output,
                                          FormatLine(ChildLevel(st.stack), c.text)),
                    !.output_src = Append(st.output_src, n),
                    !.emitted_by = Append(st.emitted_by, n)]
    ELSE st

\* What follows the while loop: the push and the emission.
PushEmit(st, c, n) ==
    IF c.kind = "checkbox"
    THEN EmitCheckbox(Push(st, c, n), c, n)
    ELSE EmitBullet(Push(st, c, n), c, n)

\* One iteration of `for raw_line in text.splitlines()`, on line number n.
Iteration(st, raw_line, n) ==
    LET c == Classify(raw_line)
    IN  IF c.kind \in {"blank", "other"}
        THEN st
        ELSE PushEmit(Unwind(st, c.indent), c, n)

\* The for loop over the lines ls, the first of which has number n.
RECURSIVE RunFrom(_, _, _)
RunFrom(st, ls, n) ==
    IF ls = <<>> THEN st
    ELSE RunFrom(Iteration(st, Head(ls), n), Tail(ls), n + 1)

\* build_report(text)
BuildReport(text) == RunFrom(InitLocals, SplitLines(text), 1).output

(* ------------------------------------------------------------------ inputs *)

\* Leading whitespace of the document's lines: indents 0, 1 and 4.
Leads == {<<>>, <<" ">>, <<"\t">>}

\* A plain bullet "- a" and a checkbox "- [ ] b".
ItemBodies == {<<"-", " ", "a">>, <<"-", " ", "[", " ", "]", " ", "b">>}

\* An empty line, a whitespace-only line and a line that is no list item.
OtherLines == {<<>>, <<" ">>, <<"a">>}

LineSet == {lead \o body : lead \in Leads, body \in ItemBodies} \cup OtherLines

\* The text whose lines are ls, each ended by a line break.
RECURSIVE JoinLines(_)
JoinLines(ls) ==
    IF ls = <<>> THEN <<>> ELSE Head(ls) \o <<"\n">> \o JoinLines(Tail(ls))

\* The documents download_document may return.
Documents ==
    {JoinLines(ls) : ls \in UNION {[1..n -> LineSet] : n \in 0..MaxLines}}

\* Exceptions authenticate() lets escape.
AuthErrors == {"FileNotFoundError", "GoogleAuthError", "ValueError"}

\* Exceptions download_document() lets escape: a 404 HttpError becomes
\* FileNotFoundError, any other HttpError is re-raised.
DownloadErrors == {"FileNotFoundError", "HttpError"}

\* except (FileNotFoundError, google.auth.exceptions.GoogleAuthError, HttpError)
CaughtByMain(exc) == exc \in {"FileNotFoundError", "GoogleAuthError", "HttpError"}

(* ------------------------------------------------------------------- state *)

VARIABLES
    pc,              \* position of main(): "parse_args", "extract_doc_id",
                     \* "authenticate", "download_document", "build_report",
                     \* "loop", "print", "returned", "exited"
    telegram,        \* args.telegram
    raised,          \* the exception a collaborator raised, "none" if none did
    exit_status,     \* status of the process once it ended, -1 while running
    printed,         \* what main printed on stdout: "none", "report", "telegram", "no_match"
    downloaded,      \* raw_text is bound (download_document returned)
    raw_text,        \* the downloaded text
    lines,           \* text.splitlines()
    i,               \* number of lines the for loop has consumed
    stack,           \* build_report: stack of <<indent, item_text>>
    collecting,      \* build_report: collecting
    collect_indent,  \* build_report: collect_indent
    root_stack_len,  \* build_report: root_stack_len
    output,          \* build_report: output
    stack_src,       \* history: for each stack entry, the number of its input line
    output_src,      \* history: for each output entry, the number of the line it shows
    emitted_by,      \* history: for each output entry, the number of the line whose
                     \* processing appended it
    pops             \* history: number of passes through the while loop's body

vars == <<pc, telegram, raised, exit_status, printed, downloaded, raw_text, lines, i,
          stack, collecting, collect_indent, root_stack_len, output,
          stack_src, output_src, emitted_by, pops>>

mainVars == <<telegram, raised, exit_status, printed, downloaded, raw_text>>

reportVars == <<lines, i, stack, collecting, collect_indent, root_stack_len, output,
                stack_src, output_src, emitted_by, pops>>

Init ==
    /\ pc = "parse_args"
    /\ telegram = FALSE
    /\ raised = "none"
    /\ exit_status = -1
    /\ printed = "none"
    /\ downloaded = FALSE
    /\ raw_text = <<>>
    /\ lines = <<>>
    /\ i = 0
    /\ stack = <<>>
    /\ collecting = FALSE
    /\ collect_indent = None
    /\ root_stack_len = 0
    /\ output = <<>>
    /\ stack_src = <<>>
    /\ output_src = <<>>
    /\ emitted_by = <<>>
    /\ pops = 0

(* -------------------------------------------------------------------- main *)

\* args = parser.parse_args(argv)
ParseArgs ==
    /\ pc = "parse_args"
    /\ telegram' \in BOOLEAN
    /\ pc' = "extract_doc_id"
    /\ UNCHANGED <<raised, exit_status, printed, downloaded, raw_text, reportVars>>

\* Variant of ExitWith that ends with sys.exit(): status 0.
ExitWithZero(exc) ==
    /\ raised' = exc
    /\ exit_status' = 0
    /\ pc' = "exited"

\* sys.exit(1) after the error message
ExitWith(exc) ==
    /\ raised' = exc
    /\ exit_status' = 1
    /\ pc' = "exited"

\* file_id = extract_doc_id(args.url)
ExtractDocId ==
    /\ pc = "extract_doc_id"
    /\ \/ /\ pc' = "authenticate"
          /\ UNCHANGED <<raised, exit_status>>
       \/ ExitWith("ValueError")
    /\ UNCHANGED <<telegram, printed, downloaded, raw_text, reportVars>>

\* An exception main does not catch ends the interpreter with status 1.
Escape(exc) ==
    /\ raised' = exc
    /\ exit_status' = 1
    /\ pc' = "exited"

\* creds = authenticate()
Authenticate ==
    /\ pc = "authenticate"
    /\ \/ /\ pc' = "download_document"
          /\ UNCHANGED <<raised, exit_status>>
       \/ \E exc \in AuthErrors :
             IF CaughtByMain(exc) THEN ExitWith(exc) ELSE Escape(exc)
    /\ UNCHANGED <<telegram, printed, downloaded, raw_text, reportVars>>

\* raw_text = download_document(file_id, creds)
DownloadDocument ==
    /\ pc = "download_document"
    /\ \/ /\ \E doc \in Documents : raw_text' = doc
          /\ downloaded' = TRUE
          /\ pc' = "build_report"
          /\ UNCHANGED <<raised, exit_status>>
       \/ /\ \E exc \in DownloadErrors :
                IF CaughtByMain(exc) THEN ExitWith(exc) ELSE Escape(exc)
          /\ UNCHANGED <<downloaded, raw_text>>
    /\ UNCHANGED <<telegram, printed, reportVars>>

(* ------------------------------------------------------------ build_report *)

Locals ==
    [stack |-> stack, collecting |-> collecting, collect_indent |-> collect_indent,
     root_stack_len |-> root_stack_len, output |-> output,
     stack_src |-> stack_src, output_src |-> output_src, emitted_by |-> emitted_by,
     pops |-> pops]

SetLocals(st) ==
    /\ stack' = st.stack
    /\ collecting' = st.collecting
    /\ collect_indent' = st.collect_indent
    /\ root_stack_len' = st.root_stack_len
    /\ output' = st.output
    /\ stack_src' = st.stack_src
    /\ output_src' = st.output_src
    /\ emitted_by' = st.emitted_by
    /\ pops' = st.pops

localVars == <<stack, collecting, collect_indent, root_stack_len, output,
               stack_src, output_src, emitted_by, pops>>

\* The call: locals initialised, text.splitlines() evaluated.
BuildReportEnter ==
    /\ pc = "build_report"
    /\ lines' = SplitLines(raw_text)
    /\ i' = 0
    /\ SetLocals(InitLocals)
    /\ pc' = "loop"
    /\ UNCHANGED mainVars

\* The line the next iteration reads, and its classification.
CurLine == lines[i + 1]

Cur == Classify(CurLine)

\* `if not raw_line.strip(): continue`
SkipBlank ==
    /\ pc = "loop" /\ i < Len(lines)
    /\ Cur.kind = "blank"
    /\ i' = i + 1
    /\ UNCHANGED <<pc, mainVars, lines, localVars>>

\* `else: continue  # Not a list item`
SkipNonItem ==
    /\ pc = "loop" /\ i < Len(lines)
    /\ Cur.kind = "other"
    /\ i' = i + 1
    /\ UNCHANGED <<pc, mainVars, lines, localVars>>

\* An iteration on a checkbox line: unwind, push, emit the path, start collecting.
ProcessCheckbox ==
    /\ pc = "loop" /\ i < Len(lines)
    /\ Cur.kind = "checkbox"
    /\ SetLocals(Iteration(Locals, CurLine, i + 1))
    /\ i' = i + 1
    /\ UNCHANGED <<pc, mainVars, lines>>

\* An iteration on a plain bullet line: unwind, push, emit it if it is a child.
ProcessBullet ==
    /\ pc = "loop" /\ i < Len(lines)
    /\ Cur.kind = "bullet"
    /\ SetLocals(Iteration(Locals, CurLine, i + 1))
    /\ i' = i + 1
    /\ UNCHANGED <<pc, mainVars, lines>>

\* `return output`: report_lines = build_report(raw_text)
ReturnReport ==
    /\ pc = "loop" /\ i = Len(lines)
    /\ pc' = "print"
    /\ UNCHANGED <<mainVars, reportVars>>

(* The same iteration with the while loop taken one pop at a time. *)

\* A list item was classified: the while loop is entered.
BeginItem ==
    /\ pc = "loop" /\ i < Len(lines)
    /\ Cur.kind \in {"checkbox", "bullet"}
    /\ pc' = "unwind"
    /\ UNCHANGED <<mainVars, reportVars>>

\* One pass through the body of the while loop.
PopStep ==
    /\ pc = "unwind"
    /\ PopCond(stack, Cur.indent)
    /\ SetLocals(PopOnce(Locals, Cur.indent))
    /\ UNCHANGED <<pc, mainVars, lines, i>>

\* The while loop is left: push, emission, next line.
FinishItem ==
    /\ pc = "unwind"
    /\ ~PopCond(stack, Cur.indent)
    /\ SetLocals(PushEmit(Locals, Cur, i + 1))
    /\ i' = i + 1
    /\ pc' = "loop"
    /\ UNCHANGED <<mainVars, lines>>

(* ------------------------------------------------------------ presentation *)

\* print(tg_text) after format_for_telegram(report_lines)
PrintTelegram ==
    /\ pc = "print" /\ output # <<>> /\ telegram
    /\ printed' = "telegram"
    /\ pc' = "returned"
    /\ exit_status' = 0
    /\ UNCHANGED <<telegram, raised, downloaded, raw_text, reportVars>>

\* print("\n".join(report_lines))
PrintReport ==
    /\ pc = "print" /\ output # <<>> /\ ~telegram
    /\ printed' = "report"
    /\ pc' = "returned"
    /\ exit_status' = 0
    /\ UNCHANGED <<telegram, raised, downloaded, raw_text, reportVars>>

\* print("No matching lines were found.")
PrintNoMatch ==
    /\ pc = "print" /\ output = <<>>
    /\ printed' = "no_match"
    /\ pc' = "returned"
    /\ exit_status' = 0
    /\ UNCHANGED <<telegram, raised, downloaded, raw_text, reportVars>>

\* main() before and after build_report.
MainNext ==
    \/ ParseArgs
    \/ ExtractDocId
    \/ Authenticate
    \/ DownloadDocument
    \/ BuildReportEnter
    \/ ReturnReport
    \/ PrintTelegram
    \/ PrintReport
    \/ PrintNoMatch

Next ==
    \/ MainNext
    \/ SkipBlank
    \/ SkipNonItem
    \/ ProcessCheckbox
    \/ ProcessBullet

Spec == Init /\ [][Next]_vars

\* The program with the while loop taken one pass at a time.
StepNext ==
    \/ MainNext
    \/ SkipBlank
    \/ SkipNonItem
    \/ BeginItem
    \/ PopStep
    \/ FinishItem

StepSpec == Init /\ [][StepNext]_vars

(* ------------------------------------------------ build_report on one line *)

\* The longest run of leading spaces and tabs of the lines below.
MaxLead == 3

\* Leading whitespace: spaces and tabs in any order.
LeadRuns == UNION {[1..n -> {" ", "\t"}] : n \in 0..MaxLead}

\* The parts a checkbox line is put together from: a bullet marker, the text
\* before the brackets, the empty brackets and the text after them.
Markers == {<<>>, <<"-">>, <<"-", " ">>, <<"1", ".", " ">>}

PreTexts == {<<>>, <<"a">>}

Gaps == {<<>>, <<" ">>}

Brackets == {<<"[", "]">>, <<"[", " ", "]">>}

PostTexts == {<<>>, <<"b">>}

CheckboxBodies ==
    {mk \o pre \o g1 \o br \o g2 \o post :
        mk \in Markers, pre \in PreTexts, g1 \in Gaps, br \in Brackets,
        g2 \in Gaps, post \in PostTexts}

\* An empty body, a line that is no list item, a plain bullet and a bullet
\* whose brackets are not empty.
PlainBodies ==
    {<<>>, <<"a">>, <<"-", " ", "a">>, <<"-", " ", "[", "x", "]", " ", "b">>}

ProbeLines == {lead \o body : lead \in LeadRuns, body \in CheckboxBodies \cup PlainBodies}

\* build_report called on a text of one line.
LineInit ==
    /\ pc = "build_report"
    /\ telegram = FALSE
    /\ raised = "none"
    /\ exit_status = -1
    /\ printed = "none"
    /\ downloaded = TRUE
    /\ \E l \in ProbeLines : raw_text = JoinLines(<<l>>)
    /\ lines = <<>>
    /\ i = 0
    /\ stack = <<>>
    /\ collecting = FALSE
    /\ collect_indent = None
    /\ root_stack_len = 0
    /\ output = <<>>
    /\ stack_src = <<>>
    /\ output_src = <<>>
    /\ emitted_by = <<>>
    /\ pops = 0

LineNext ==
    \/ BuildReportEnter
    \/ SkipBlank
    \/ SkipNonItem
    \/ ProcessCheckbox
    \/ ProcessBullet
    \/ ReturnReport

LineSpec == LineInit /\ [][LineNext]_vars

(* ================================================================ claims *)

\* Classification of input line k of the current call.
KindOf(k) == Classify(lines[k]).kind

IndentAt(k) == Classify(lines[k]).indent

TextAt(k) == Classify(lines[k]).text

IsItem(k) == KindOf(k) \in {"checkbox", "bullet"}

\* The checkbox lines among the first n lines, and the last of them.
Checkboxes(n) == {k \in 1..n : KindOf(k) = "checkbox"}

LastCheckbox(n) == MaxOf(Checkboxes(n))

\* A raw line that matches neither pattern, or is blank.
Unclassified(l) ==
    \/ IsBlank(l)
    \/ /\ ~CheckboxSearch(ContentOf(NormLine(l))).matched
       /\ ~BulletMatch(ContentOf(NormLine(l))).matched

\* The report line at level lvl with text txt, written out.
ReportLine(lvl, txt) == [k \in 1..(2 * lvl) |-> " "] \o <<"-", " ">> \o txt

\* The level a report line is written at.
LevelOf(line) == LeadCount(line, {" "}) \div 2

\* The output entries the processing of line k appended, and the lines they show.
BlockIdx(k) == {n \in DOMAIN emitted_by : emitted_by[n] = k}

BlockOf(k) == SubSeq(output, MinOf(BlockIdx(k)), MaxOf(BlockIdx(k)))

BlockSrcOf(k) == SubSeq(output_src, MinOf(BlockIdx(k)), MaxOf(BlockIdx(k)))

\* Line k shows as a report line of its own, appended when it was processed.
EmittedAsOwnLine(k) ==
    \E n \in DOMAIN output :
        /\ emitted_by[n] = k
        /\ output_src[n] = k
        /\ output[n] = ReportLine(LevelOf(output[n]), TextAt(k))

(* ---- C1 *)

\* C1: processing a checkbox line appends one blank separator and then one line
\* per entry of the stack as it stands after the push, entry k-1 at level k-1
\* (2*(k-1) spaces, "- ", the entry's text), the last being the checkbox itself;
\* with a stack of length 1 the block is exactly <<"", "- <text>">>.
C1_CheckboxBlock ==
    [][ (pc = "loop" /\ i < Len(lines) /\ Cur.kind = "checkbox") =>
          LET n    == Len(stack')
              base == Len(output)
          IN  /\ n >= 1
              /\ stack'[n] = <<Cur.indent, Cur.text>>
              /\ Len(output') = base + 1 + n
              /\ SubSeq(output', 1, base) = output
              /\ output'[base + 1] = <<>>
              /\ \A k \in 1..n :
                    output'[base + 1 + k] = ReportLine(k - 1, stack'[k][2])
              /\ (n = 1 => SubSeq(output', base + 1, base + 2)
                             = << <<>>, <<"-", " ">> \o Cur.text >>)
      ]_vars

\* A checkbox with at least one ancestor has just been processed.
C1_Witness ==
    /\ pc = "loop" /\ i >= 2
    /\ KindOf(i) = "checkbox"
    /\ Len(stack) >= 2
    /\ emitted_by # <<>> /\ emitted_by[Len(emitted_by)] = i
    /\ Len(output) >= 3

(* ---- C2 *)

\* C2: every plain bullet k that follows a checkbox j at a strictly deeper
\* indent, with no list item of indent <= that of j in between, is emitted as a
\* report line of its own.
C2_EveryDeeperBulletEmitted ==
    \A k \in 1..i : \A j \in 1..(k - 1) :
        ( /\ KindOf(k) = "bullet"
          /\ KindOf(j) = "checkbox"
          /\ IndentAt(k) > IndentAt(j)
          /\ \A m \in (j + 1)..(k - 1) : IsItem(m) => IndentAt(m) > IndentAt(j) )
        => EmittedAsOwnLine(k)

(* ---- C3 *)

\* Plain bullet k is processed when no checkbox has been seen, or at an indent
\* <= that of the most recent checkbox.
NonDescendant(k) ==
    /\ KindOf(k) = "bullet"
    /\ \/ Checkboxes(k - 1) = {}
       \/ IndentAt(k) <= IndentAt(LastCheckbox(k - 1))

\* C3 as stated: such a plain bullet never appears in the output.
C3_NeverAppears ==
    \A k \in 1..i :
        NonDescendant(k) => \A n \in DOMAIN output_src : output_src[n] # k

\* C3 as amended: the iteration that processes such a plain bullet appends
\* nothing to the output.
C3_NotEmittedWhenProcessed ==
    [][ (pc = "loop" /\ i < Len(lines) /\ NonDescendant(i + 1)) => output' = output
      ]_vars

\* Such a bullet has just been processed after a checkbox of the same or a
\* deeper indent.
C3_Witness ==
    /\ pc = "loop" /\ i >= 2
    /\ NonDescendant(i)
    /\ Checkboxes(i - 1) # {}
    /\ output # <<>>

(* ---- C4 *)

\* Number of lines of the chain emitted for checkbox line k (separator excluded).
ChainLines(k) == Cardinality({n \in BlockIdx(k) : output_src[n] # 0})

\* C4: a plain bullet emitted as a child line is at level len(stack) - 1, stack
\* taken after its push; that level is >= the number of lines of the chain of
\* the most recent checkbox, and equal to it for the first child emitted directly
\* after the chain.
C4_ChildLevel ==
    [][ (pc = "loop" /\ i < Len(lines) /\ Cur.kind = "bullet" /\ output' # output) =>
          /\ Len(output') = Len(output) + 1
          /\ SubSeq(output', 1, Len(output)) = output
          /\ Checkboxes(i) # {}
          /\ LET line  == output'[Len(output')]
                 lvl   == LevelOf(line)
                 chain == ChainLines(LastCheckbox(i))
             IN  /\ line = ReportLine(lvl, Cur.text)
                 /\ lvl = Len(stack') - 1
                 /\ lvl >= chain
                 /\ (emitted_by[Len(emitted_by)] = LastCheckbox(i) => lvl = chain)
      ]_vars

\* A child has just been emitted two levels deep, under a checkbox with a parent.
C4_Witness ==
    /\ pc = "loop" /\ i >= 3
    /\ KindOf(i) = "bullet"
    /\ emitted_by # <<>> /\ emitted_by[Len(emitted_by)] = i
    /\ Len(stack) >= 3

(* ---- C5 *)

\* Checkbox lines j < k at the same indent with no list item of smaller indent
\* between them.
Siblings(j, k) ==
    /\ j < k
    /\ KindOf(j) = "checkbox" /\ KindOf(k) = "checkbox"
    /\ IndentAt(j) = IndentAt(k)
    /\ \A m \in (j + 1)..(k - 1) : IsItem(m) => IndentAt(m) >= IndentAt(j)

\* C5: sibling checkboxes each have a block of their own that starts with a blank
\* separator, repeats the same ancestor lines and ends with the checkbox's own
\* line; the earlier checkbox is not in the later one's block.
C5_SiblingBlocks ==
    \A j \in 1..i : \A k \in 1..i :
        Siblings(j, k) =>
            LET bj == BlockOf(j)
                bk == BlockOf(k)
                sj == BlockSrcOf(j)
                sk == BlockSrcOf(k)
                n  == Len(bk)
            IN  /\ BlockIdx(j) \cap BlockIdx(k) = {}
                /\ Len(bj) = n /\ n >= 2
                /\ bj[1] = <<>> /\ bk[1] = <<>>
                /\ \A m \in 2..(n - 1) : bj[m] = bk[m] /\ sj[m] = sk[m]
                /\ sj[n] = j /\ sk[n] = k
                /\ bj[n] = ReportLine(n - 2, TextAt(j))
                /\ bk[n] = ReportLine(n - 2, TextAt(k))
                /\ \A m \in 1..n : sk[m] # j

\* Two sibling checkboxes under a common ancestor have both been processed.
C5_Witness ==
    \E j \in 1..i : \E k \in 1..i :
        /\ Siblings(j, k)
        /\ Len(BlockOf(k)) >= 3

(* ---- C6 *)

\* Number of list items among the first n lines.
Items(n) == Cardinality({k \in 1..n : IsItem(k)})

\* A bound on the number of steps main() still takes: three per line left to
\* read (enter the while loop, leave it, and the pop of the entry it pushes), one
\* per stack entry (its pop), and one per position of main() still ahead.
Variant ==
    CASE pc = "parse_args"        -> 3 * MaxLines + 8
      [] pc = "extract_doc_id"    -> 3 * MaxLines + 7
      [] pc = "authenticate"      -> 3 * MaxLines + 6
      [] pc = "download_document" -> 3 * MaxLines + 5
      [] pc = "build_report"      -> 3 * MaxLines + 4
      [] pc = "loop"              -> 3 * (Len(lines) - i) + Len(stack) + 3
      [] pc = "unwind"            -> 3 * (Len(lines) - i) + Len(stack) + 2
      [] pc = "print"             -> 1
      [] OTHER                    -> 0

\* C6: build_report terminates without raising: every step of the run, each
\* pass through the while loop included, brings the run strictly closer to its
\* end; the for loop reads one line per iteration and has read them all when the
\* report is returned; each pass pops an entry that was pushed, so the pops never
\* outnumber the list items read.
C6_Terminates ==
    [][ /\ Variant' < Variant
        /\ Variant' >= 0
        /\ (pc = "loop" /\ pc' = "loop") => i' = i + 1
        /\ (pc = "unwind") => i' \in {i, i + 1}
        /\ (pc' = "print") => i' = Len(lines') /\ raised' = "none"
        /\ pops' + Len(stack') = Items(i')
        /\ pops' <= Items(i')
      ]_vars

\* A run whose while loop popped at least twice has returned.
C6_Witness == pc = "returned" /\ pops >= 2

(* ---- C7 *)

\* C7: an iteration on a blank line, or on one matching neither pattern, leaves
\* stack, collecting, collect_indent and output unchanged; and the report returned
\* is the report of the text with all such lines removed.
C7_SkippedLinesFrame ==
    [][ /\ (pc = "loop" /\ i < Len(lines) /\ Unclassified(CurLine))
              => UNCHANGED <<stack, collecting, collect_indent, root_stack_len, output>>
        /\ (pc = "loop" /\ pc' = "print")
              => output' = BuildReport(JoinLines(
                               SelectSeq(lines, LAMBDA l : ~Unclassified(l))))
      ]_vars

\* A report with a child line was returned for a text with a skipped line
\* between its list items.
C7_Witness ==
    /\ pc = "print"
    /\ Len(lines) = 3
    /\ Unclassified(lines[2]) /\ ~IsBlank(lines[2])
    /\ Len(output) >= 3

(* ---- C8 *)

\* C8: for the empty text, and for a text none of whose lines is a list item,
\* the report is empty (and main prints the no-match message).
C8_EmptyReport ==
    (pc \in {"print", "returned"} /\ \A k \in DOMAIN lines : Unclassified(lines[k]))
        => /\ output = <<>>
           /\ (pc = "returned" => printed = "no_match")

\* main returned on a text of several lines, none of them a list item.
C8_Witness ==
    /\ pc = "returned"
    /\ Len(lines) >= 2
    /\ \A k \in DOMAIN lines : Unclassified(lines[k])
    /\ \E k \in DOMAIN lines : ~IsBlank(lines[k])

(* ---- C9 *)

\* C9: once extract_doc_id, authenticate or download_document has raised, the
\* run has ended with status 1, no text was downloaded, build_report was not
\* entered and nothing was printed; build_report runs only on a downloaded text.
C9_ErrorsExit ==
    /\ raised # "none" =>
          /\ pc = "exited"
          /\ exit_status = 1
          /\ printed = "none"
          /\ ~downloaded
          /\ lines = <<>> /\ i = 0 /\ output = <<>>
    /\ pc \in {"build_report", "loop", "print", "returned"} =>
          downloaded /\ raised = "none"

\* The download failed with an HttpError other than 404.
C9_Witness == pc = "exited" /\ raised = "HttpError"

(* ---- C10 *)

\* C10: after every list item is processed the stack's indents increase strictly
\* from bottom to top and its top entry is that item.
C10_StackIncreasing ==
    /\ \A a \in DOMAIN stack : \A b \in DOMAIN stack :
          a < b => stack[a][1] < stack[b][1]
    /\ (pc \in {"loop", "print", "returned"} /\ i >= 1 /\ IsItem(i)) =>
          /\ stack # <<>>
          /\ stack[Len(stack)] = <<IndentAt(i), TextAt(i)>>
          /\ stack_src[Len(stack_src)] = i

\* An item was pushed after the while loop popped deeper entries.
C10_Witness ==
    /\ pc = "loop" /\ i = 3
    /\ IsItem(3)
    /\ pops >= 1
    /\ Len(stack) = 2

(* ---- C11 *)

\* The nearest list item before line k whose indent is strictly smaller than
\* that of line k; 0 when there is none.
Parent(k) ==
    LET c == {m \in 1..(k - 1) : IsItem(m) /\ IndentAt(m) < IndentAt(k)}
    IN  IF c = {} THEN 0 ELSE MaxOf(c)

\* The chain of nearest strictly shallower predecessors of line k, shallowest
\* first, ending in k.
RECURSIVE ChainOf(_)
ChainOf(k) == IF k = 0 THEN <<>> ELSE Append(ChainOf(Parent(k)), k)

\* The last list item among the first n lines; 0 when there is none.
LastItem(n) ==
    LET c == {m \in 1..n : IsItem(m)} IN IF c = {} THEN 0 ELSE MaxOf(c)

\* C11: after a list item is pushed the stack is the chain of its nearest
\* strictly shallower predecessors, shallowest first and ending in the item,
\* and the block emitted for a checkbox lists exactly that chain.
C11_StackIsChain ==
    (pc \in {"loop", "print", "returned"}) =>
        /\ stack_src = ChainOf(LastItem(i))
        /\ \A a \in DOMAIN stack :
              stack[a] = <<IndentAt(stack_src[a]), TextAt(stack_src[a])>>
        /\ \A k \in Checkboxes(i) :
              /\ BlockSrcOf(k) = <<0>> \o ChainOf(k)
              /\ \A m \in 1..Len(ChainOf(k)) :
                    BlockOf(k)[m + 1] = ReportLine(m - 1, TextAt(ChainOf(k)[m]))

\* A checkbox was pushed whose chain skips the item right before it.
C11_Witness ==
    /\ pc = "loop" /\ i = 3
    /\ KindOf(3) = "checkbox"
    /\ IsItem(2)
    /\ stack_src = <<1, 3>>
    /\ BlockSrcOf(3) = <<0, 1, 3>>

(* ---- C12 *)

\* C12: while collecting mode is active, a list item whose indent is at most
\* the recorded checkbox indent makes the while loop run and switches the mode
\* off before the item is pushed, and a plain bullet is appended to the output
\* only when the mode is on and its indent exceeds the recorded indent; a pass
\* of the while loop pops the top entry exactly when the current indent is at
\* most that entry's indent, otherwise the item is pushed.
C12_CollectingStops ==
    [][ (pc = "unwind") =>
          LET ind  == Cur.indent
              deep == stack # <<>> /\ ind <= stack[Len(stack)][1]
          IN  /\ (collecting /\ ind <= collect_indent) =>
                    /\ deep
                    /\ ~collecting'
                    /\ collect_indent' = None
                    /\ output' = output
              /\ deep =>
                    /\ stack' = SubSeq(stack, 1, Len(stack) - 1)
                    /\ pc' = "unwind"
              /\ ~deep =>
                    /\ stack' = Append(stack, <<ind, Cur.text>>)
                    /\ pc' = "loop"
                    /\ collecting => ind > collect_indent
                    /\ Cur.kind = "bullet" =>
                          IF collecting /\ ind > collect_indent
                          THEN output' = Append(output,
                                                ReportLine(Len(stack), Cur.text))
                          ELSE output' = output
    ]_vars

\* A plain bullet at the indent of the collecting checkbox was pushed: the mode
\* is off and nothing was appended for it.
C12_Witness ==
    /\ pc = "loop" /\ i = 2
    /\ KindOf(1) = "checkbox" /\ KindOf(2) = "bullet"
    /\ IndentAt(2) = IndentAt(1)
    /\ ~collecting /\ collect_indent = None
    /\ stack_src = <<2>>
    /\ BlockIdx(2) = {}

(* ---- C13 *)

\* The largest indent the re-indented documents use.
MaxWidth == 3

\* The indents of the list items in Documents.
Indents == {IndentOf(ExpandTabs(lead)) : lead \in Leads}

\* The strictly increasing maps from these indents to widths.
IncreasingMaps ==
    {f \in [Indents -> 0..MaxWidth] :
        \A a \in Indents : \A b \in Indents : a < b => f[a] < f[b]}

\* Line l with its indent replaced by f[indent] spaces, when it is a list item.
Reindent(l, f) ==
    IF Unclassified(l) THEN l
    ELSE Spaces(f[IndentOf(NormLine(l))]) \o ContentOf(NormLine(l))

ReindentAll(ls, f) == [k \in DOMAIN ls |-> Reindent(ls[k], f)]

\* C13: a text with the same list items whose indents are the images of the
\* original indents under a strictly increasing map has the same report.
C13_OrderOnly ==
    []((pc = "print") =>
         \A f \in IncreasingMaps :
             BuildReport(JoinLines(ReindentAll(lines, f))) = output)

\* A report with a child line, and a re-indented text that differs from the
\* original in the width of every indent step.
C13_Witness ==
    /\ pc = "print"
    /\ Len(output) >= 3
    /\ \E k \in DOMAIN output : output_src[k] # 0 /\ emitted_by[k] # output_src[k]
    /\ \E k \in DOMAIN output : output_src[k] # 0 /\ LevelOf(output[k]) = 2
    /\ \E f \in IncreasingMaps :
          /\ \A k \in DOMAIN lines :
                IsItem(k) /\ IndentAt(k) > 0 =>
                    Classify(Reindent(lines[k], f)).indent # IndentAt(k)
          /\ BuildReport(JoinLines(ReindentAll(lines, f))) = output

(* ---- C14 *)

\* The leading spaces and tabs of the line build_report was called on.
LeadOf(l) == SubSeq(l, 1, LeadCount(l, {" ", "\t"}))

SpacesIn(lead) == Cardinality({k \in DOMAIN lead : lead[k] = " "})

TabsIn(lead) == Cardinality({k \in DOMAIN lead : lead[k] = "\t"})

\* The spaces right before position k of lead, back to the previous tab.
SpacesBefore(lead, k) ==
    LET tabs == {j \in 1..(k - 1) : lead[j] = "\t"}
    IN  k - 1 - (IF tabs = {} THEN 0 ELSE MaxOf(tabs))

\* Every tab of lead starts at a multiple of TabSize.
TabsAligned(lead) ==
    \A k \in DOMAIN lead : lead[k] = "\t" => SpacesBefore(lead, k) % TabSize = 0

\* The line was a list item and has been pushed.
LinePushed == pc \in {"loop", "print"} /\ i = 1 /\ stack # <<>>

Combined(pre, post) ==
    IF pre # <<>> /\ post # <<>> THEN pre \o <<" ">> \o post
    ELSE IF pre # <<>> THEN pre
    ELSE IF post # <<>> THEN post
    ELSE <<>>

C16_CollectingAnchor ==
    /\ collecting <=> collect_indent # None
    /\ collecting =>
          /\ root_stack_len \in 1..Len(stack)
          /\ stack[root_stack_len][1] = collect_indent
          /\ stack_src[root_stack_len] = LastCheckbox(i)
    /\ (pc = "unwind" /\ ~PopCond(stack, Cur.indent) /\ collecting) =>
          Cur.indent > collect_indent

\* The while loop is left with collecting on, in a run that has popped before:
\* the checkbox is the top of the stack and the current line is deeper.
C16_Witness ==
    /\ pc = "unwind"
    /\ ~PopCond(stack, Cur.indent)
    /\ collecting
    /\ pops >= 1
    /\ root_stack_len = Len(stack)
    /\ Cur.indent > collect_indent

(* ---- C17 *)

\* C17: in the output the entry after a blank separator is a line at level 0,
\* and a line that follows another line is at most one level deeper than it.
C17_NoLevelJump ==
    \A n \in DOMAIN output :
        /\ output[n] = Blank =>
              /\ n < Len(output)
              /\ output[n + 1] # Blank
              /\ LevelOf(output[n + 1]) = 0
        /\ (output[n] # Blank /\ n > 1 /\ output[n - 1] # Blank) =>
              LevelOf(output[n]) <= LevelOf(output[n - 1]) + 1

\* A report with a separator, a chain of two lines at levels 0 and 1 and a
\* child line, appended by a later iteration, at level 2.
C17_Witness ==
    /\ pc = "print"
    /\ Len(output) = 4
    /\ output[1] = Blank
    /\ LevelOf(output[2]) = 0
    /\ LevelOf(output[3]) = 1
    /\ LevelOf(output[4]) = 2
    /\ emitted_by[4] # emitted_by[3]

(* ---- C18 *)

\* The blank separators in the output.
Blanks == {n \in DOMAIN output : output[n] = Blank}

\* C18: once build_report has returned, the output has as many blank
\* separators as the text has checkbox lines, it is non-empty exactly when
\* there is a checkbox line, and when non-empty it begins with a separator.
C18_BlankPerCheckbox ==
    (pc \in {"print", "returned"}) =>
        /\ Cardinality(Blanks) = Cardinality(Checkboxes(Len(lines)))
        /\ output # <<>> <=> Checkboxes(Len(lines)) # {}
        /\ output # <<>> => output[1] = Blank

\* A text with two checkbox lines and a plain bullet has been processed.
C18_Witness ==
    /\ pc = "print"
    /\ Len(lines) = 3
    /\ Cardinality(Checkboxes(3)) = 2
    /\ Cardinality(Blanks) = 2
    /\ Len(output) > 4

(* ---- C19 *)

\* The first list item after line k, 0 when there is none.
FirstItemAfter(k) ==
    LET c == {m \in (k + 1)..Len(lines) : IsItem(m)}
    IN  IF c = {} THEN 0 ELSE MinOf(c)

\* The text made of lines a..b of the current text.
TextOf(a, b) == JoinLines(SubSeq(lines, a, b))

\* C19: when the text is A followed by B, A ending at a line boundary, and the
\* first list item of B has indent 0, the report is the report of A followed
\* by the report of B; a list item of indent 0 leaves the stack holding that
\* item alone and, when it is a plain bullet, collecting mode off.
C19_TopLevelResets ==
    [](/\ (pc = "print") =>
             \A k \in 0..Len(lines) :
                 (FirstItemAfter(k) # 0 /\ IndentAt(FirstItemAfter(k)) = 0) =>
                     output = BuildReport(TextOf(1, k))
                              \o BuildReport(TextOf(k + 1, Len(lines)))
       /\ (pc = "loop" /\ i >= 1 /\ IsItem(i) /\ IndentAt(i) = 0) =>
             /\ stack_src = <<i>>
             /\ KindOf(i) = "bullet" => ~collecting /\ collect_indent = None)

\* A text whose first two lines give a chain with a nested checkbox, and whose
\* last line is a checkbox of indent 0: the report is the two reports joined.
C19_Witness ==
    /\ pc = "print"
    /\ Len(lines) = 3
    /\ FirstItemAfter(2) = 3 /\ IndentAt(3) = 0 /\ KindOf(3) = "checkbox"
    /\ KindOf(2) = "checkbox" /\ IndentAt(2) > 0 /\ IsItem(1)
    /\ BuildReport(TextOf(1, 2)) # <<>>
    /\ BuildReport(TextOf(3, 3)) # <<>>
    /\ output = BuildReport(TextOf(1, 2)) \o BuildReport(TextOf(3, 3))

====
